---- MODULE Spec2Model ----
(***************************************************************************)
(* Model of package netint (linode-netint.go): the datacenter registry,    *)
(* Regions, Abbr, GetOverview and its six accessors, AllOverviews, and the *)
(* decode / buildOverview / pullSample pipeline.                           *)
(*                                                                         *)
(* Go strings that are parsed are sequences of one-character strings.      *)
(* uint32/uint64 values are pairs of 16-bit limbs [hi, lo] standing for    *)
(* hi * 2^16 + lo, so that the 32-bit range check of strconv.ParseUint is  *)
(* computed at its real width.                                             *)
(***************************************************************************)
EXTENDS Integers, Sequences, FiniteSets, TLC

VARIABLES datacenters, last, probe, running, calls

vars == <<datacenters, last, probe, running, calls>>

(***************************************************************************)
(* Bounds of the model.                                                    *)
(***************************************************************************)
\* largest number of inner entries a destination's outer array holds
MaxEntries == 2

\* number of calls a caller makes
MaxCalls == 3

(***************************************************************************)
(* Constants of the program.                                               *)
(***************************************************************************)
BaseURLPrefix == "http://netint-"

BaseURLSuffix == ".linode.com/ping/samples"

TestDatacenter == "testdatacenter"

TestURL == "http://www.mocky.io/v2/548fd4750b9c75fd02437812"

\* bitSize argument of the three strconv.ParseUint calls
BitSize == 32

\* one limb of a BitSize-bit value
Limb == 2 ^ (BitSize \div 2)

\* base argument of the three strconv.ParseUint calls
Base == 10

(***************************************************************************)
(* The registry.                                                           *)
(***************************************************************************)
InitDatacenters ==
    [dallas  |-> [name |-> "dallas",  abbr |-> "dal"],
     fremont |-> [name |-> "fremont", abbr |-> "fmt"],
     atlanta |-> [name |-> "atlant",  abbr |-> "atl"],
     newark  |-> [name |-> "newark",  abbr |-> "nwk"],
     london  |-> [name |-> "london",  abbr |-> "lon"],
     tokyo   |-> [name |-> "tokyo",   abbr |-> "tok"]]

Regions(dcs) ==
    <<dcs.dallas.name, dcs.fremont.name, dcs.atlanta.name,
      dcs.newark.name, dcs.london.name, dcs.tokyo.name>>

Abbr(dcs, dc) ==
    CASE dc = dcs.dallas.name  -> dcs.dallas.abbr
      [] dc = dcs.fremont.name -> dcs.fremont.abbr
      [] dc = dcs.atlanta.name -> dcs.atlanta.abbr
      [] dc = dcs.newark.name  -> dcs.newark.abbr
      [] dc = dcs.london.name  -> dcs.london.abbr
      [] dc = dcs.tokyo.name   -> dcs.tokyo.abbr
      [] OTHER                 -> ""

Sprintf(abbr) == BaseURLPrefix \o abbr \o BaseURLSuffix

(***************************************************************************)
(* Error values.                                                           *)
(***************************************************************************)
NilError == [type |-> "nil", name |-> "", num |-> <<>>, msg |-> ""]

\* fmt.Errorf("'%v' is not a valid datacenter\n", dc)
InvalidDatacenterError(dc) ==
    [type |-> "fmt.Errorf", name |-> dc, num |-> <<>>,
     msg |-> "is not a valid datacenter"]

\* *strconv.NumError{Func: "ParseUint", Num: s, Err: msg}
NumError(s, msg) ==
    [type |-> "strconv.NumError", name |-> "ParseUint", num |-> s, msg |-> msg]

SyntaxError ==
    [type |-> "json.SyntaxError", name |-> "", num |-> <<>>, msg |-> "invalid JSON"]

UnmarshalTypeError ==
    [type |-> "json.UnmarshalTypeError", name |-> "", num |-> <<>>,
     msg |-> "cannot unmarshal"]

(***************************************************************************)
(* strconv.ParseUint(s, 10, 32) and the uint32 conversion.                 *)
(***************************************************************************)
Zero == [hi |-> 0, lo |-> 0]

\* maxVal = 1<<32 - 1
MaxVal == [hi |-> Limb - 1, lo |-> Limb - 1]

DigitChars == <<"0", "1", "2", "3", "4", "5", "6", "7", "8", "9">>

IsDigit(c) == \E k \in 1..Base : DigitChars[k] = c

DigitVal(c) == (CHOOSE k \in 1..Base : DigitChars[k] = c) - 1

\* n*base + d on limbs; hi may exceed one limb, which is the range overflow
MulAdd(n, d) ==
    LET lo10 == n.lo * Base + d
    IN  [hi |-> n.hi * Base + (lo10 \div Limb), lo |-> lo10 % Limb]

\* ParseLoop with the range check of 64 bits in place of 32: nothing in reach
\* of the inputs is out of range
RECURSIVE ParseLoop_bitSize64(_, _, _)
ParseLoop_bitSize64(s, k, n) ==
    IF k > Len(s) THEN [n |-> n, err |-> NilError]
    ELSE IF ~IsDigit(s[k]) THEN [n |-> Zero, err |-> NumError(s, "invalid syntax")]
    ELSE ParseLoop_bitSize64(s, k + 1, MulAdd(n, DigitVal(s[k])))

RECURSIVE ParseLoop(_, _, _)
ParseLoop(s, k, n) ==
    IF k > Len(s) THEN [n |-> n, err |-> NilError]
    ELSE IF ~IsDigit(s[k]) THEN [n |-> Zero, err |-> NumError(s, "invalid syntax")]
    ELSE LET n1 == MulAdd(n, DigitVal(s[k]))
         IN  IF n1.hi > MaxVal.hi
             THEN [n |-> MaxVal, err |-> NumError(s, "value out of range")]
             ELSE ParseLoop(s, k + 1, n1)

ParseUint(s) ==
    IF s = <<>> THEN [n |-> Zero, err |-> NumError(s, "invalid syntax")]
    ELSE ParseLoop(s, 1, Zero)

\* uint32(r): keeps the low 32 bits
Uint32(r) == [hi |-> r.hi % Limb, lo |-> r.lo]

(***************************************************************************)
(* JSON values as encoding/json decodes them into interface{}: a number is *)
(* the float64 w + f/10 (w its whole part, w >= 0), a string is a sequence *)
(* of characters, an array is a sequence of values.                        *)
(***************************************************************************)
JNum(w, f) == [k |-> "num", w |-> w, f |-> f, s |-> <<>>, a |-> <<>>]

JStr(s) == [k |-> "str", w |-> 0, f |-> 0, s |-> s, a |-> <<>>]

JArr(a) == [k |-> "arr", w |-> 0, f |-> 0, s |-> <<>>, a |-> a]

JNull == [k |-> "null", w |-> 0, f |-> 0, s |-> <<>>, a |-> <<>>]

JBool == [k |-> "bool", w |-> 0, f |-> 0, s |-> <<>>, a |-> <<>>]

\* a key that the object does not have
JAbsent == [k |-> "absent", w |-> 0, f |-> 0, s |-> <<>>, a |-> <<>>]

\* the struct fields of samples / Overview, in declaration order
Fields == <<"Dallas", "Fremont", "Atlanta", "Newark", "London", "Tokyo">>

FieldSet == {Fields[n] : n \in 1..Len(Fields)}

\* the json tag of each field of samples
Tag(fld) ==
    CASE fld = "Dallas"  -> "linode-dallas"
      [] fld = "Fremont" -> "linode-fremont"
      [] fld = "Atlanta" -> "linode-atlanta"
      [] fld = "Newark"  -> "linode-newark"
      [] fld = "London"  -> "linode-london"
      [] fld = "Tokyo"   -> "linode-tokyo"

TagSet == {Tag(fld) : fld \in FieldSet}

\* decoding one element of the outer array into []interface{}
DecodeInner(v) ==
    CASE v.k = "arr"  -> [e |-> v.a, bad |-> FALSE]
      [] v.k = "null" -> [e |-> <<>>, bad |-> FALSE]
      [] OTHER        -> [e |-> <<>>, bad |-> TRUE]

\* decoding the value of one key into [][]interface{}
DecodeField(v) ==
    CASE v.k = "arr" ->
            [i   |-> [n \in 1..Len(v.a) |-> DecodeInner(v.a[n]).e],
             bad |-> \E n \in 1..Len(v.a) : DecodeInner(v.a[n]).bad]
      [] v.k \in {"null", "absent"} -> [i |-> <<>>, bad |-> FALSE]
      [] OTHER -> [i |-> <<>>, bad |-> TRUE]

\* json.Unmarshal(body, s) with s = &samples{}
Unmarshal(body) ==
    LET zero == [fld \in FieldSet |-> <<>>]
    IN  IF ~body.valid THEN [s |-> zero, err |-> SyntaxError]
        ELSE IF body.top = "null" THEN [s |-> zero, err |-> NilError]
        ELSE IF body.top # "object" THEN [s |-> zero, err |-> UnmarshalTypeError]
        ELSE [s   |-> [fld \in FieldSet |-> DecodeField(body.obj[Tag(fld)]).i],
              err |-> IF \E fld \in FieldSet : DecodeField(body.obj[Tag(fld)]).bad
                      THEN UnmarshalTypeError ELSE NilError]

(***************************************************************************)
(* pullSample and buildOverview.                                           *)
(***************************************************************************)
NilSample == [nil |-> TRUE, Epoch |-> 0, RTT |-> Zero, Loss |-> Zero, Jitter |-> Zero]

NewSample(ep, r, l, j) == [nil |-> FALSE, Epoch |-> ep, RTT |-> r, Loss |-> l, Jitter |-> j]

\* int64(x.(float64)): the fraction is dropped
Int64(v) == v.w

IndexPanic == "index out of range"

ConversionPanic == "interface conversion"

\* the result of a conversion that was not made
NoParse == [n |-> Zero, err |-> NilError]

\* i[0][n].(string) followed by strconv.ParseUint(_, 10, 32)
PullField(i, n) ==
    IF Len(i) < 1 THEN [panic |-> IndexPanic, r |-> NoParse]
    ELSE IF Len(i[1]) < n + 1 THEN [panic |-> IndexPanic, r |-> NoParse]
    ELSE IF i[1][n + 1].k # "str" THEN [panic |-> ConversionPanic, r |-> NoParse]
    ELSE [panic |-> "", r |-> ParseUint(i[1][n + 1].s)]

SamplePanic(p) == [kind |-> "panic", s |-> NilSample, err |-> NilError, panic |-> p]

SampleError(e) == [kind |-> "err", s |-> NilSample, err |-> e, panic |-> ""]

\* Convert without the error check after the jitter conversion
Convert_jitterUnchecked(i, r, l, j) ==
    IF r.panic # "" THEN SamplePanic(r.panic)
    ELSE IF r.r.err # NilError THEN SampleError(r.r.err)
    ELSE IF l.panic # "" THEN SamplePanic(l.panic)
    ELSE IF l.r.err # NilError THEN SampleError(l.r.err)
    ELSE IF j.panic # "" THEN SamplePanic(j.panic)
    ELSE IF i[1][1].k # "num" THEN SamplePanic(ConversionPanic)
    ELSE [kind |-> "ok",
          s |-> NewSample(Int64(i[1][1]), Uint32(r.r.n), Uint32(l.r.n), Uint32(j.r.n)),
          err |-> NilError, panic |-> ""]

\* the body of pullSample, r, l and j being its three conversions in order:
\* each is reached only when the ones before it neither panicked nor failed
Convert(i, r, l, j) ==
    IF r.panic # "" THEN SamplePanic(r.panic)
    ELSE IF r.r.err # NilError THEN SampleError(r.r.err)
    ELSE IF l.panic # "" THEN SamplePanic(l.panic)
    ELSE IF l.r.err # NilError THEN SampleError(l.r.err)
    ELSE IF j.panic # "" THEN SamplePanic(j.panic)
    ELSE IF j.r.err # NilError THEN SampleError(j.r.err)
    ELSE IF i[1][1].k # "num" THEN SamplePanic(ConversionPanic)
    ELSE [kind |-> "ok",
          s |-> NewSample(Int64(i[1][1]), Uint32(r.r.n), Uint32(l.r.n), Uint32(j.r.n)),
          err |-> NilError, panic |-> ""]

pullSample(i) == Convert(i, PullField(i, 1), PullField(i, 2), PullField(i, 3))

NilOverview ==
    [nil |-> TRUE, Name |-> "", Dallas |-> NilSample, Fremont |-> NilSample,
     Atlanta |-> NilSample, Newark |-> NilSample, London |-> NilSample,
     Tokyo |-> NilSample]

\* return nil, err (or the panic going up)
Stop(p) == [kind |-> p.kind, o |-> NilOverview, err |-> p.err, panic |-> p.panic]

\* the body of buildOverview, its six pullSample results in order: each is
\* reached only when the ones before it succeeded
Assemble(da, fr, at, nw, lo, tk) ==
    IF da.kind # "ok" THEN Stop(da)
    ELSE IF fr.kind # "ok" THEN Stop(fr)
    ELSE IF at.kind # "ok" THEN Stop(at)
    ELSE IF nw.kind # "ok" THEN Stop(nw)
    ELSE IF lo.kind # "ok" THEN Stop(lo)
    ELSE IF tk.kind # "ok" THEN Stop(tk)
    ELSE [kind |-> "ok",
          o |-> [nil |-> FALSE, Name |-> "", Dallas |-> da.s, Fremont |-> fr.s,
                 Atlanta |-> at.s, Newark |-> nw.s, London |-> lo.s, Tokyo |-> tk.s],
          err |-> NilError, panic |-> ""]

buildOverview(s) ==
    Assemble(pullSample(s.Dallas), pullSample(s.Fremont), pullSample(s.Atlanta),
             pullSample(s.Newark), pullSample(s.London), pullSample(s.Tokyo))

(***************************************************************************)
(* GetOverview.  world maps a URL to what responseBody returns for it:     *)
(* [err, body].  The result records the URLs fetched, in order.            *)
(***************************************************************************)
NoBody == [valid |-> FALSE, top |-> "", obj |-> [t \in TagSet |-> JAbsent]]

\* the error of a request to a host that does not exist
NoSuchHost ==
    [type |-> "url.Error", name |-> "", num |-> <<>>, msg |-> "no such host"]

responseBody(world, u) ==
    IF u \in DOMAIN world THEN world[u] ELSE [err |-> NoSuchHost, body |-> NoBody]

Failed(e, fetched) ==
    [kind |-> "err", o |-> NilOverview, err |-> e, panic |-> "", fetched |-> fetched]

\* o, err = buildOverview(s) and what follows it
Built(dc, u, b) ==
    IF b.kind # "ok"
    THEN [kind |-> b.kind, o |-> NilOverview, err |-> b.err, panic |-> b.panic,
          fetched |-> <<u>>]
    ELSE [kind |-> "ok", o |-> [b.o EXCEPT !.Name = dc], err |-> NilError,
          panic |-> "", fetched |-> <<u>>]

\* err = json.Unmarshal(body, s) and what follows it
Decoded(dc, u, un) ==
    IF un.err # NilError THEN Failed(un.err, <<u>>)
    ELSE Built(dc, u, buildOverview(un.s))

\* body, err := responseBody(u) and what follows it
Responded(dc, u, resp) ==
    IF resp.err # NilError THEN Failed(resp.err, <<u>>)
    ELSE Decoded(dc, u, Unmarshal(resp.body))

\* the switch on dc that sets u
Resolved(dc, dcAbbr, world) ==
    IF dc = TestDatacenter THEN Responded(dc, TestURL, responseBody(world, TestURL))
    ELSE IF dcAbbr = "" THEN Failed(InvalidDatacenterError(dc), <<>>)
    ELSE Responded(dc, Sprintf(dcAbbr), responseBody(world, Sprintf(dcAbbr)))

GetOverview(dcs, dc, world) == Resolved(dc, Abbr(dcs, dc), world)

(***************************************************************************)
(* AllOverviews: the loop over Regions(); m is the map built so far, kept  *)
(* as a function from the region names inserted to their Overview.         *)
(***************************************************************************)
EmptyMap == [d \in {} |-> NilOverview]

RECURSIVE AllLoop(_, _, _, _, _, _)

\* Iteration returning the map built so far, not nil, with the error
Iteration_partialMap(dcs, rs, n, world, m, fetched, g) ==
    IF g.kind # "ok"
    THEN [kind |-> g.kind, m |-> m, err |-> g.err, panic |-> g.panic,
          fetched |-> fetched \o g.fetched]
    ELSE AllLoop(dcs, rs, n + 1, world,
                 [d \in DOMAIN m \cup {rs[n]} |-> IF d = rs[n] THEN g.o ELSE m[d]],
                 fetched \o g.fetched)

\* one iteration of the loop, g being the result of GetOverview(d)
Iteration(dcs, rs, n, world, m, fetched, g) ==
    IF g.kind # "ok"
    THEN [kind |-> g.kind, m |-> EmptyMap, err |-> g.err, panic |-> g.panic,
          fetched |-> fetched \o g.fetched]
    ELSE AllLoop(dcs, rs, n + 1, world,
                 [d \in DOMAIN m \cup {rs[n]} |-> IF d = rs[n] THEN g.o ELSE m[d]],
                 fetched \o g.fetched)

AllLoop(dcs, rs, n, world, m, fetched) ==
    IF n > Len(rs)
    THEN [kind |-> "ok", m |-> m, err |-> NilError, panic |-> "", fetched |-> fetched]
    ELSE Iteration(dcs, rs, n, world, m, fetched, GetOverview(dcs, rs[n], world))

AllOverviews(dcs, world) == AllLoop(dcs, Regions(dcs), 1, world, EmptyMap, <<>>)

(***************************************************************************)
(* Inputs: the region names callers pass and the responses the fetcher     *)
(* returns.  A response body is the well-formed body with the value of one *)
(* key replaced.                                                           *)
(***************************************************************************)
Str12 == <<"1", "2">>

Str0 == <<"0">>

Str3 == <<"3">>

StrAbc == <<"a", "b", "c">>

\* 2^32 - 1
StrMax == <<"4", "2", "9", "4", "9", "6", "7", "2", "9", "5">>

\* 2^32
StrOver == <<"4", "2", "9", "4", "9", "6", "7", "2", "9", "6">>

StrPool ==
    {Str12, Str0, Str3, StrAbc, StrMax, StrOver, <<>>,
     <<"0", "0", "7">>, <<"6", "5", "5", "3", "6">>, <<"-", "1">>, <<"1", "2", "a">>,
     <<"4", "2", "9", "4", "9", "6", "7", "3", "0", "8">>,
     <<"0", "4", "2", "9", "4", "9", "6", "7", "2", "9", "5">>,
     <<"9", "9", "9", "9", "9", "9", "9", "9", "9", "9", "9">>,
     <<"9", "9", "9", "9", "9", "9", "9", "9", "9", "9", "9", "x">>}

SmallPool == {Str0, StrAbc, StrMax, StrOver}

GoodEntry == <<JNum(1670000000, 0), JStr(Str12), JStr(Str0), JStr(Str3)>>

OtherEntry == <<JNum(1670000060, 5), JStr(<<"7">>), JStr(<<"1">>), JStr(<<"9">>)>>

With(e, n, v) == [e EXCEPT ![n] = v]

EntryVariants ==
    {With(GoodEntry, 2, JStr(s)) : s \in StrPool}
    \cup {With(GoodEntry, n, JStr(s)) : n \in 3..4, s \in SmallPool}
    \cup {With(GoodEntry, n, v) : n \in 1..4, v \in {JNull, JNum(5, 5), JBool, JStr(StrAbc)}}
    \cup {SubSeq(GoodEntry, 1, n) : n \in 0..3}
    \cup {GoodEntry \o <<JStr(Str12)>>, OtherEntry}

CoreEntries == {GoodEntry, With(GoodEntry, 2, JStr(StrAbc))}

\* what may follow the first inner entry
ExtraPool == {JArr(OtherEntry), JArr(<<>>), JNull, JNum(1, 0)}

RECURSIVE Extras(_)
Extras(n) ==
    IF n <= 0 THEN {<<>>}
    ELSE {<<>>} \cup {<<x>> \o xs : x \in ExtraPool, xs \in Extras(n - 1)}

FieldVariants ==
    {JAbsent, JNull, JArr(<<>>), JArr(<<JNull>>), JStr(Str12), JArr(<<JNum(1, 0)>>)}
    \cup {JArr(<<JArr(e)>>) : e \in EntryVariants}
    \cup {JArr(<<JArr(e)>> \o xs) : e \in CoreEntries, xs \in Extras(MaxEntries - 1)}

GoodObj == [t \in TagSet |-> JArr(<<JArr(GoodEntry)>>)]

ObjBody(obj) == [valid |-> TRUE, top |-> "object", obj |-> obj]

GoodBody == ObjBody(GoodObj)

OtherBody == ObjBody([t \in TagSet |-> JArr(<<JArr(OtherEntry)>>)])

\* two destinations malformed at once: Fremont's loss and Newark's rtt
TwoBadBody ==
    ObjBody([GoodObj EXCEPT
                !["linode-fremont"] = JArr(<<JArr(With(GoodEntry, 3, JStr(StrAbc)))>>),
                !["linode-newark"] = JArr(<<JArr(With(GoodEntry, 2, JStr(StrOver)))>>)])

Bodies ==
    {ObjBody([GoodObj EXCEPT ![t] = v]) : t \in TagSet, v \in FieldVariants}
    \cup {OtherBody, TwoBadBody, NoBody,
          [valid |-> TRUE, top |-> "null", obj |-> NoBody.obj],
          [valid |-> TRUE, top |-> "array", obj |-> NoBody.obj]}

ConnRefused ==
    [type |-> "url.Error", name |-> "", num |-> <<>>, msg |-> "connection refused"]

Ok(body) == [err |-> NilError, body |-> body]

TransportFailure == [err |-> ConnRefused, body |-> NoBody]

Responses == {Ok(b) : b \in Bodies} \cup {TransportFailure}

Names ==
    {"dallas", "fremont", "atlanta", "newark", "london", "tokyo", "atlant",
     TestDatacenter, "bogus", "Dallas", ""}

\* the responses an endpoint serves during AllOverviews
AllResponses ==
    {Ok(GoodBody), TransportFailure,
     Ok(ObjBody([GoodObj EXCEPT !["linode-fremont"] = JNull]))}

RegionURLs == {Sprintf(InitDatacenters[k].abbr) : k \in DOMAIN InitDatacenters}

URLs == RegionURLs \cup {TestURL}

ConstWorld(resp) == [u \in URLs |-> resp]

(***************************************************************************)
(* State: the registry, the call whose result the caller holds (with its   *)
(* inputs and its number n), an earlier GetOverview call kept for          *)
(* comparison, whether the process is still running (a panic ends it),     *)
(* and the number of calls made.                                           *)
(***************************************************************************)
NoOut ==
    [kind |-> "none", o |-> NilOverview, err |-> NilError, panic |-> "",
     fetched |-> <<>>]

NoAll ==
    [kind |-> "none", m |-> EmptyMap, err |-> NilError, panic |-> "",
     fetched |-> <<>>]

NoCall ==
    [op |-> "none", name |-> "", resp |-> TransportFailure,
     world |-> [u \in RegionURLs |-> TransportFailure], out |-> NoOut, all |-> NoAll,
     list |-> <<>>, abbr |-> "", n |-> 0]

Init ==
    /\ datacenters = InitDatacenters
    /\ last = NoCall
    /\ probe = NoCall
    /\ running = TRUE
    /\ calls = 0

\* the caller is between two calls
Idle == running /\ last = NoCall /\ calls < MaxCalls

RegionsCall ==
    /\ Idle
    /\ calls' = calls + 1
    /\ last' = [NoCall EXCEPT !.op = "Regions", !.n = calls', !.list = Regions(datacenters)]
    /\ UNCHANGED <<datacenters, probe, running>>

AbbrCall(dc) ==
    /\ Idle
    /\ calls' = calls + 1
    /\ last' = [NoCall EXCEPT !.op = "Abbr", !.n = calls', !.name = dc,
                                !.abbr = Abbr(datacenters, dc)]
    /\ UNCHANGED <<datacenters, probe, running>>

\* Returned entering a name it does not know into the registry
Returned_registers(op, dc, resp, mark, out) ==
    /\ Idle
    /\ calls' = calls + 1
    /\ last' = [NoCall EXCEPT !.op = op, !.n = calls', !.name = dc, !.resp = resp,
                                !.out = out]
    /\ probe' = IF mark THEN last' ELSE probe
    /\ running' = (out.kind # "panic")
    /\ datacenters' = IF out.err.type = "fmt.Errorf"
                      THEN [datacenters EXCEPT !.tokyo.name = dc]
                      ELSE datacenters

\* GetOverview returning out to the caller (a panic ends the process)
Returned(op, dc, resp, mark, out) ==
    /\ Idle
    /\ calls' = calls + 1
    /\ last' = [NoCall EXCEPT !.op = op, !.n = calls', !.name = dc, !.resp = resp,
                                !.out = out]
    /\ probe' = IF mark THEN last' ELSE probe
    /\ running' = (out.kind # "panic")
    /\ UNCHANGED datacenters

\* a call of GetOverview(dc), directly or through an accessor named op
Overview(op, dc, resp, mark) ==
    Returned(op, dc, resp, mark, GetOverview(datacenters, dc, ConstWorld(resp)))

GetOverviewCall(dc, resp, mark) == Overview("GetOverview", dc, resp, mark)

Dallas(resp) == Overview("Dallas", "dallas", resp, FALSE)

Fremont(resp) == Overview("Fremont", "fremont", resp, FALSE)

Atlanta(resp) == Overview("Atlanta", "atlanta", resp, FALSE)

Newark(resp) == Overview("Newark", "newark", resp, FALSE)

London(resp) == Overview("London", "london", resp, FALSE)

Tokyo(resp) == Overview("Tokyo", "tokyo", resp, FALSE)

AllReturned(world, all) ==
    /\ Idle
    /\ calls' = calls + 1
    /\ last' = [NoCall EXCEPT !.op = "AllOverviews", !.n = calls', !.world = world,
                                !.all = all]
    /\ running' = (all.kind # "panic")
    /\ UNCHANGED <<datacenters, probe>>

AllOverviewsCall(world) == AllReturned(world, AllOverviews(datacenters, world))

\* the caller is done with the result it holds
Discard ==
    /\ running
    /\ last # NoCall
    /\ last' = NoCall
    /\ UNCHANGED <<datacenters, probe, running, calls>>

Next ==
    \/ RegionsCall
    \/ \E dc \in Names : AbbrCall(dc)
    \/ \E dc \in Names, resp \in Responses : GetOverviewCall(dc, resp, FALSE)
    \/ \E resp \in AllResponses : Dallas(resp)
    \/ \E resp \in AllResponses : Fremont(resp)
    \/ \E resp \in AllResponses : Atlanta(resp)
    \/ \E resp \in AllResponses : Newark(resp)
    \/ \E resp \in AllResponses : London(resp)
    \/ \E resp \in AllResponses : Tokyo(resp)
    \/ \E world \in [RegionURLs -> AllResponses] : AllOverviewsCall(world)
    \/ Discard

Spec == Init /\ [][Next]_vars

(***************************************************************************)
(* The same operations over fewer inputs, with any GetOverview call kept   *)
(* in probe for comparison with the calls that follow it.                  *)
(***************************************************************************)
BadAt(t, n, s) ==
    Ok(ObjBody([GoodObj EXCEPT ![t] = JArr(<<JArr(With(GoodEntry, n, JStr(s)))>>)]))

PureNames == {"dallas", "atlant", TestDatacenter, "bogus"}

PureResponses ==
    {Ok(GoodBody), Ok(OtherBody), TransportFailure,
     BadAt("linode-dallas", 2, StrAbc), BadAt("linode-tokyo", 3, StrAbc),
     BadAt("linode-tokyo", 4, StrAbc), BadAt("linode-fremont", 3, <<>>),
     BadAt("linode-atlanta", 2, <<"1", "2", "a">>),
     BadAt("linode-london", 4, <<"9", "9", "9", "9", "9", "9", "9", "9", "9", "9", "9", "x">>),
     BadAt("linode-newark", 4, StrOver),
     Ok(ObjBody([GoodObj EXCEPT !["linode-london"] = JArr(<<>>)]))}

PureAllResponses == {Ok(GoodBody), TransportFailure}

NextPure ==
    \/ RegionsCall
    \/ \E dc \in PureNames : AbbrCall(dc)
    \/ \E dc \in PureNames, resp \in PureResponses, mark \in BOOLEAN :
          GetOverviewCall(dc, resp, mark)
    \/ \E resp \in PureAllResponses : Dallas(resp)
    \/ \E resp \in PureAllResponses : Fremont(resp)
    \/ \E resp \in PureAllResponses : Atlanta(resp)
    \/ \E resp \in PureAllResponses : Newark(resp)
    \/ \E resp \in PureAllResponses : London(resp)
    \/ \E resp \in PureAllResponses : Tokyo(resp)
    \/ \E world \in [RegionURLs -> PureAllResponses] : AllOverviewsCall(world)
    \/ Discard

SpecPure == Init /\ [][NextPure]_vars

(***************************************************************************)
(* What the specification says of the registry and of well-formed bodies.  *)
(***************************************************************************)
SpecRegions == <<"dallas", "fremont", "atlanta", "newark", "london", "tokyo">>

SpecAbbrs == <<"dal", "fmt", "atl", "nwk", "lon", "tok">>

SpecRegionSet == {SpecRegions[n] : n \in 1..Len(SpecRegions)}

SpecAbbr(name) ==
    IF name \in SpecRegionSet
    THEN SpecAbbrs[CHOOSE n \in 1..Len(SpecRegions) : SpecRegions[n] = name]
    ELSE ""

SpecURL(name) == "http://netint-" \o SpecAbbr(name) \o ".linode.com/ping/samples"

IsDecimal(s) == Len(s) >= 1 /\ \A k \in 1..Len(s) : IsDigit(s[k])

\* the decimal string without its leading zeros
RECURSIVE Canon(_)
Canon(s) == IF Len(s) > 1 /\ s[1] = "0" THEN Canon(Tail(s)) ELSE s

\* a <= b for digit strings of one length
RECURSIVE DigitsLeq(_, _)
DigitsLeq(a, b) ==
    \/ a = <<>>
    \/ DigitVal(a[1]) < DigitVal(b[1])
    \/ DigitVal(a[1]) = DigitVal(b[1]) /\ DigitsLeq(Tail(a), Tail(b))

\* the decimal string denotes a value <= 2^32 - 1
FitsUint32(s) ==
    \/ Len(Canon(s)) < Len(StrMax)
    \/ Len(Canon(s)) = Len(StrMax) /\ DigitsLeq(Canon(s), StrMax)

\* the decimal digits of a 32-bit value, by repeated division by ten
RECURSIVE Digits(_)
Digits(n) ==
    LET t == (n.hi % 10) * Limb + n.lo
        q == [hi |-> n.hi \div 10, lo |-> t \div 10]
    IN  IF q = Zero THEN <<DigitChars[(t % 10) + 1]>>
        ELSE Digits(q) \o <<DigitChars[(t % 10) + 1]>>

\* the first inner entry of the value of a key, when there is one
HasEntry(v) == v.k = "arr" /\ Len(v.a) >= 1 /\ v.a[1].k = "arr"

Entry(v) == v.a[1].a

\* [number, string, string, string]
RightTypes(e) ==
    /\ Len(e) = 4
    /\ e[1].k = "num"
    /\ \A n \in 2..4 : e[n].k = "str"

WellFormedEntry(e) ==
    RightTypes(e) /\ \A n \in 2..4 : IsDecimal(e[n].s) /\ FitsUint32(e[n].s)

WellFormed(resp) ==
    /\ resp.err = NilError
    /\ resp.body.valid
    /\ resp.body.top = "object"
    /\ \A t \in TagSet :
          HasEntry(resp.body.obj[t]) /\ WellFormedEntry(Entry(resp.body.obj[t]))

\* the Sample the specification expects of a well-formed entry
SampleMatches(s, e) ==
    /\ ~s.nil
    /\ s.Epoch = e[1].w
    /\ Digits(s.RTT) = Canon(e[2].s)
    /\ Digits(s.Loss) = Canon(e[3].s)
    /\ Digits(s.Jitter) = Canon(e[4].s)

IsGet == last.op = "GetOverview"

AccessorOps == {"Dallas", "Fremont", "Atlanta", "Newark", "London", "Tokyo"}

(***************************************************************************)
(* C1: Abbr returns dal, fmt, atl, nwk, lon, tok for dallas, fremont,      *)
(* atlanta, newark, london, tokyo (six distinct non-empty codes) and the   *)
(* empty string for every other name.                                      *)
(***************************************************************************)
C1_AbbrTable ==
    /\ Cardinality({SpecAbbr(r) : r \in SpecRegionSet}) = 6
    /\ last.op = "Abbr" => last.abbr = SpecAbbr(last.name)

(***************************************************************************)
(* C2: GetOverview of a name that is neither one of the six region names   *)
(* nor the test sentinel returns the invalid-datacenter error carrying the *)
(* name, no Overview, and fetches nothing.                                 *)
(***************************************************************************)
C2_UnknownRegion ==
    (IsGet /\ last.name \notin SpecRegionSet \cup {TestDatacenter}) =>
        /\ last.out.kind = "err"
        /\ last.out.err = InvalidDatacenterError(last.name)
        /\ last.out.o.nil
        /\ last.out.fetched = <<>>

(***************************************************************************)
(* C3: each accessor, when the fetcher returns a well-formed body, issues  *)
(* exactly one fetch to its region's URL and returns an Overview named     *)
(* after its region, not an error.                                         *)
(***************************************************************************)
C3_Accessors ==
    (last.op \in AccessorOps /\ WellFormed(last.resp)) =>
        /\ last.out.kind = "ok"
        /\ last.out.fetched = <<SpecURL(last.name)>>
        /\ ~last.out.o.nil
        /\ \E n \in 1..Len(Fields) :
              last.op = Fields[n] /\ last.out.o.Name = SpecRegions[n]

\* the result of the n-th region's own GetOverview call in the world of last
Single(n) == GetOverview(InitDatacenters, Regions(InitDatacenters)[n], last.world)

\* the first region whose call does not succeed, 7 when all succeed
FirstFailure ==
    IF \A n \in 1..6 : Single(n).kind = "ok" THEN 7
    ELSE CHOOSE n \in 1..6 :
            Single(n).kind # "ok" /\ \A m \in 1..(n - 1) : Single(m).kind = "ok"

(***************************************************************************)
(* C4: AllOverviews calls GetOverview once per region of the registry, in  *)
(* registry order; at the first call that fails it stops, fetches nothing  *)
(* for the later regions and returns that call's error with a nil map; it  *)
(* returns a map (of all six regions) only when all six calls succeeded.   *)
(* A call that panics ends AllOverviews the same way, without a map.       *)
(***************************************************************************)
C4_FirstFailureAborts ==
    last.op = "AllOverviews" =>
        LET f == FirstFailure
            k == IF f > 6 THEN 6 ELSE f
        IN  /\ last.all.fetched = [n \in 1..k |-> Sprintf(SpecAbbrs[n])]
            /\ f <= 6 => /\ last.all.kind = Single(f).kind
                         /\ last.all.err = Single(f).err
                         /\ last.all.m = EmptyMap
            /\ f > 6 => /\ last.all.kind = "ok"
                        /\ last.all.err = NilError
                        /\ DOMAIN last.all.m = {Regions(InitDatacenters)[n] : n \in 1..6}
                        /\ \A n \in 1..6 :
                              last.all.m[Regions(InitDatacenters)[n]] = Single(n).o
            /\ last.all.kind = "ok" <=> f > 6

\* AllOverviews stopped at the third region on its transport failure, a later
\* endpoint failing too
C4_Witness ==
    /\ last.op = "AllOverviews"
    /\ last.all.kind = "err"
    /\ Len(last.all.fetched) = 3
    /\ last.all.err = ConnRefused
    /\ \E u \in DOMAIN last.world : u # last.all.fetched[3] /\ last.world[u].err # NilError

(***************************************************************************)
(* C5: for every one of the six region names and every well-formed body,   *)
(* GetOverview returns an Overview named after the region whose six        *)
(* Samples hold the timestamp and the values of the three strings of the   *)
(* first inner entry of their destination.                                 *)
(***************************************************************************)
C5_Normalized ==
    (IsGet /\ last.name \in SpecRegionSet /\ WellFormed(last.resp)) =>
        /\ last.out.kind = "ok"
        /\ ~last.out.o.nil
        /\ last.out.o.Name = last.name
        /\ \A fld \in FieldSet :
              SampleMatches(last.out.o[fld], Entry(last.resp.body.obj[Tag(fld)]))

(***************************************************************************)
(* Bodies whose six keys all hold a first inner entry of the right types.  *)
(***************************************************************************)
\* json.Unmarshal accepts the body: an object whose keys hold arrays of arrays
Decodes(resp) ==
    /\ resp.err = NilError
    /\ resp.body.valid
    /\ resp.body.top = "object"
    /\ \A t \in TagSet :
          /\ resp.body.obj[t].k \in {"arr", "null", "absent"}
          /\ \A n \in 1..Len(resp.body.obj[t].a) :
                resp.body.obj[t].a[n].k \in {"arr", "null"}

Typed(resp) ==
    /\ Decodes(resp)
    /\ \A t \in TagSet :
          HasEntry(resp.body.obj[t]) /\ RightTypes(Entry(resp.body.obj[t]))

\* the (key, index) places of the metric strings that satisfy P
Places(resp, P(_)) ==
    {pl \in TagSet \X (2..4) : P(Entry(resp.body.obj[pl[1]])[pl[2]].s)}

NonNumeric(s) == ~IsDecimal(s)

TooLarge(s) == IsDecimal(s) /\ ~FitsUint32(s)

\* exactly one metric string is non-numeric and the others fit 32 bits
OneBad(resp) ==
    /\ Typed(resp)
    /\ Cardinality(Places(resp, NonNumeric)) = 1
    /\ Places(resp, TooLarge) = {}

BadPlace(resp) == CHOOSE pl \in Places(resp, NonNumeric) : TRUE

BadString(resp) == Entry(resp.body.obj[BadPlace(resp)[1]])[BadPlace(resp)[2]].s

\* GetOverview fetched the response of last
Fetched == IsGet /\ Len(last.out.fetched) = 1

RECURSIVE DigitPrefix(_)
DigitPrefix(s) ==
    IF s = <<>> \/ ~IsDigit(s[1]) THEN <<>> ELSE <<s[1]>> \o DigitPrefix(Tail(s))

WrongTyped(e) ==
    \/ Len(e) < 4
    \/ e[1].k # "num"
    \/ \E n \in 2..4 : e[n].k # "str"

(***************************************************************************)
(* C7: when the first inner entry of a destination has a wrong-typed or    *)
(* missing element, GetOverview returns an error and no Overview; it does  *)
(* not panic.                                                              *)
(***************************************************************************)
C7_TypeErrorReturned ==
    (/\ Fetched
     /\ Decodes(last.resp)
     /\ \A t \in TagSet : HasEntry(last.resp.body.obj[t])
     /\ \E t \in TagSet : WrongTyped(Entry(last.resp.body.obj[t])))
    => /\ last.out.kind = "err"
       /\ last.out.o.nil

NoEntry(v) == v.k \in {"absent", "null"} \/ (v.k = "arr" /\ Len(v.a) = 0)

(***************************************************************************)
(* C8: when the body is valid JSON but one of the six keys is absent or    *)
(* null, or its value is an empty array, GetOverview returns an error and  *)
(* no Overview; it does not panic.                                         *)
(***************************************************************************)
C8_ShapeErrorReturned ==
    (/\ Fetched
     /\ last.resp.err = NilError
     /\ last.resp.body.valid
     /\ last.resp.body.top = "object"
     /\ \E t \in TagSet : NoEntry(last.resp.body.obj[t]))
    => /\ last.out.kind = "err"
       /\ last.out.o.nil

(***************************************************************************)
(* C9: with all three metrics of every destination decimal strings, a      *)
(* string whose value exceeds 2^32-1 makes GetOverview fail with the range *)
(* error and return no Overview (the value is never stored, reduced modulo *)
(* 2^32 or not); when every value is at most 2^32-1 they are all accepted  *)
(* and stored unchanged.                                                   *)
(***************************************************************************)
C9_RangeChecked ==
    (Fetched /\ Typed(last.resp) /\ Places(last.resp, NonNumeric) = {}) =>
        IF Places(last.resp, TooLarge) = {}
        THEN /\ last.out.kind = "ok"
             /\ \A fld \in FieldSet :
                   SampleMatches(last.out.o[fld], Entry(last.resp.body.obj[Tag(fld)]))
        ELSE /\ last.out.kind = "err"
             /\ last.out.o.nil
             /\ last.out.err.type = "strconv.NumError"
             /\ last.out.err.msg = "value out of range"
             /\ TooLarge(last.out.err.num)

\* GetOverview fetched a body whose only too large value, 2^32, is Tokyo's loss
C9_Witness ==
    /\ Fetched
    /\ Typed(last.resp)
    /\ Places(last.resp, NonNumeric) = {}
    /\ Places(last.resp, TooLarge) = {<<"linode-tokyo", 3>>}
    /\ last.out.err.num = StrOver
    /\ last.out.kind = "err"

(***************************************************************************)
(* C10: after any earlier calls, a GetOverview call with the name and the  *)
(* response of an earlier GetOverview call has the same outcome, and the   *)
(* registry is as it was initialized.                                      *)
(***************************************************************************)
C10_Pure ==
    /\ datacenters = InitDatacenters
    /\ (/\ IsGet
        /\ probe.op = "GetOverview"
        /\ probe.name = last.name
        /\ probe.resp = last.resp)
       => last.out = probe.out

\* a successful GetOverview call repeats an earlier one, another call between
C10_Witness ==
    /\ IsGet
    /\ probe.op = "GetOverview"
    /\ probe.n + 1 < last.n
    /\ probe.name = last.name
    /\ probe.resp = last.resp
    /\ last.out.kind = "ok"
    /\ last.out = probe.out

====
